---- MODULE Spec2Model ----
(***************************************************************************)
(* AI Playground (src/src/App.tsx): the ThemeProvider and the AppProvider  *)
(* with the operations their contexts hand to the views.                   *)
(*                                                                         *)
(* The variables hold the COMMITTED hook state, i.e. what the latest       *)
(* render saw and what the closures of that render (handleSubmitPrompt     *)
(* among them) read.  React runs the handlers of discrete events (click,   *)
(* keydown, change) to completion and commits their batched updates before *)
(* the next event is dispatched, so such a handler is one action.  Updates *)
(* made from a timer callback or after an await are batched too (React 18  *)
(* createRoot, the root a Vite project is generated with), but they are    *)
(* rendered in a later task: they wait in `pending` until Commit.          *)
(*                                                                         *)
(* A text is a sequence of characters; a fixed fragment of a reply         *)
(* template is kept as one element.                                        *)
(***************************************************************************)
EXTENDS Integers, Sequences, FiniteSets, TLC

VARIABLES
    status,        \* "running", or "crashed" when the first render threw
    storageFails,  \* environment: access to localStorage throws
    stored,        \* localStorage entry "theme" (Absent when there is none)
    theme,         \* ThemeProvider state
    isLoading, isResponding, models, templates,
    currentModel, temperature, maxTokens, prompt, chatHistory,
    catalogTimer,  \* the 1000 ms timer of the mount effect is armed
    timers,        \* replies whose 1500 ms timer is armed, oldest first
    pending,       \* updates enqueued outside an event, not yet rendered
    accepted,      \* history: submissions that passed the guard
    lastSubmit,    \* history: the latest of them, as it was when it passed
    rejected       \* history: the last operation was a submit the guard refused

vars == <<status, storageFails, stored, theme, isLoading,
          isResponding, models, templates, currentModel, temperature,
          maxTokens, prompt, chatHistory, catalogTimer, timers, pending,
          accepted, lastSubmit, rejected>>

appVars == <<isLoading, isResponding, models, templates, currentModel,
             temperature, maxTokens, prompt, chatHistory>>

(***************************************************************************)
(* Bounds of the model.                                                    *)
(***************************************************************************)
\* a submission is taken up only while the transcript is shorter than this
MaxHistory == 3

(***************************************************************************)
(* Constants of the program.                                               *)
(***************************************************************************)
Absent == "null"
Undefined == "undefined"

modelsData ==
    << [id |-> "gemini-2.5-flash-preview-05-20", name |-> "Gemini 2.5 Flash",
        provider |-> "Google (Simulated)"],
       [id |-> "claude-3-opus", name |-> "Claude 3 Opus",
        provider |-> "Anthropic (Simulated)"],
       [id |-> "gpt-4-turbo", name |-> "GPT-4 Turbo",
        provider |-> "OpenAI (Simulated)"] >>

templatesData ==
    << <<"Explain the theory of relativity in simple terms.">>,
       <<"Write a short story about a robot who discovers music.">>,
       <<"Generate a Python script to organize files in a directory.">>,
       <<"What are the top 5 travel destinations for 2025?">> >>

InitialModelUnlisted == "gpt-5"

\* the initial value of currentModel
InitialModel == modelsData[1].id

\* temperature is kept in tenths: 7 stands for 0.7
InitialTemperature == 7
InitialMaxTokens == 1024

(***************************************************************************)
(* Inputs.                                                                 *)
(***************************************************************************)
\* what localStorage may hold under "theme" when the page is opened
StoredInputs == {Absent, "", "light", "dark", "blue"}
\* texts typed into the textarea: a blank one and one with a leading blank
PromptInputs == { <<" ">>, <<" ", "H", "i">> }
\* ids handed to setCurrentModel: the catalog's and one that is not in it
ModelIdInputs == {modelsData[i].id : i \in 1..Len(modelsData)} \cup {"no-such-model"}
TemperatureInputs == {10}
MaxTokensInputs == {4096}

(***************************************************************************)
(* String.prototype.trim                                                   *)
(***************************************************************************)
WhiteSpace == {" ", "\n", "\t"}

RECURSIVE TrimStart(_)
TrimStart(s) ==
    IF s # <<>> /\ Head(s) \in WhiteSpace THEN TrimStart(Tail(s)) ELSE s

RECURSIVE TrimEnd(_)
TrimEnd(s) ==
    IF s # <<>> /\ s[Len(s)] \in WhiteSpace
    THEN TrimEnd(SubSeq(s, 1, Len(s) - 1)) ELSE s

Trim(s) == TrimEnd(TrimStart(s))

(***************************************************************************)
(* ThemeProvider                                                           *)
(***************************************************************************)
\* the useState initializer; "throw" when reading localStorage throws
InitialTheme(fails, saved, dark) ==
    IF fails THEN "throw"
    ELSE IF saved # Absent /\ saved # "" THEN saved
    ELSE IF dark THEN "dark" ELSE "light"

toggleTheme(prevTheme) == IF prevTheme = "light" THEN "dark" ELSE "light"

(***************************************************************************)
(* handleSubmitPrompt                                                      *)
(***************************************************************************)
SubmitRefusedIgnoringFlag(p, responding) == Trim(p) = <<>>

SubmitRefusedUntrimmed(p, responding) == p = <<>> \/ responding

\* the early return of the handler
SubmitRefused(p, responding) == Trim(p) = <<>> \/ responding

NotFound == [id |-> Undefined, name |-> Undefined, provider |-> Undefined]

\* Array.prototype.find on the loaded models
RECURSIVE FindModel(_, _)
FindModel(ms, id) ==
    IF ms = <<>> THEN NotFound
    ELSE IF Head(ms).id = id THEN Head(ms) ELSE FindModel(Tail(ms), id)

Quote == "\""

NoSubmit == [modelId |-> Undefined, prompt |-> <<>>, before |-> <<>>]

NewChatHistoryDroppingPast(history, userMessage) == <<userMessage>>

\* newChatHistory: the transcript of the render with the user's message added
NewChatHistory(history, userMessage) == Append(history, userMessage)

\* the if/else chain that builds aiTextResponse
ReplyText(modelId, selectedModel, currentPrompt) ==
    IF modelId = "gemini-2.5-flash-preview-05-20"
    THEN <<"This is a fast and concise simulated response from Gemini 2.5 Flash. You asked: ", Quote>>
         \o currentPrompt \o <<Quote, " It's designed for efficiency!">>
    ELSE IF modelId = "claude-3-opus"
    THEN <<"This is a highly articulate and insightful response from the simulated Claude 3 Opus. Your prompt was: ", Quote>>
         \o currentPrompt
         \o <<Quote, " Claude is designed for complex reasoning and nuanced understanding.">>
    ELSE IF modelId = "gpt-4-turbo"
    THEN <<"A comprehensive and powerful response from the simulated GPT-4 Turbo. You asked: ", Quote>>
         \o currentPrompt
         \o <<Quote, " GPT-4 Turbo excels at generating detailed and creative content.">>
    ELSE <<"This is a generic simulated response. The model ", Quote, selectedModel.name, Quote,
           " is not recognized for specific simulation. Your prompt was: ", Quote>>
         \o currentPrompt \o <<Quote>>

AiResponseFromClearedField(modelId, selectedModel, currentPrompt) ==
    [sender |-> "ai", content |-> ReplyText(modelId, selectedModel, <<>>),
     model |-> selectedModel.name, isError |-> FALSE]

UserMessage(p) ==
    [sender |-> "user", content |-> p, model |-> Undefined, isError |-> FALSE]

AiResponse(modelId, selectedModel, currentPrompt) ==
    [sender |-> "ai", content |-> ReplyText(modelId, selectedModel, currentPrompt),
     model |-> selectedModel.name, isError |-> FALSE]

ErrorMessage ==
    [sender |-> "ai",
     content |-> <<"An error occurred during simulation: ", "Selected model not found.", ".">>,
     model |-> "System", isError |-> TRUE]

SimulatedFallback(currentPrompt) ==
    [sender |-> "ai",
     content |-> <<"This is a fallback simulated response. Your prompt was: ", Quote>>
                 \o currentPrompt \o <<Quote>>,
     model |-> "Simulator", isError |-> FALSE]

FailurePairErrorOnly(currentPrompt) == <<ErrorMessage>>

\* what the catch block hands to setChatHistory
FailurePair(currentPrompt) == <<ErrorMessage, SimulatedFallback(currentPrompt)>>

(***************************************************************************)
(* Updates waiting for a render, and the render that applies them.         *)
(***************************************************************************)
Update(op, arg) == [op |-> op, arg |-> arg]

RECURSIVE AppendedBy(_)
AppendedBy(q) ==
    IF q = <<>> THEN <<>>
    ELSE (IF Head(q).op = "appendChat" THEN Head(q).arg ELSE <<>>) \o AppendedBy(Tail(q))

Has(q, op) == \E i \in 1..Len(q) : q[i].op = op

(***************************************************************************)
(* Init: the state after the first render and its effects.                 *)
(***************************************************************************)
Init ==
    \* dark: matchMedia("(prefers-color-scheme: dark)").matches
    \E fails \in BOOLEAN, saved \in StoredInputs, dark \in BOOLEAN :
        LET t == InitialTheme(fails, saved, dark) IN
        /\ storageFails = fails
        /\ status = IF t = "throw" THEN "crashed" ELSE "running"
        /\ theme = IF t = "throw" THEN Undefined ELSE t
        \* the theme effect runs after the first render
        /\ stored = IF t = "throw" THEN Absent ELSE t
        /\ isLoading = TRUE
        /\ isResponding = FALSE
        /\ models = <<>>
        /\ templates = <<>>
        /\ currentModel = InitialModel
        /\ temperature = InitialTemperature
        /\ maxTokens = InitialMaxTokens
        /\ prompt = <<>>
        /\ chatHistory = <<>>
        \* the mount effect of AppProvider arms the catalog timer
        /\ catalogTimer = (t # "throw")
        /\ timers = <<>>
        /\ pending = <<>>
        /\ accepted = 0
        /\ lastSubmit = NoSubmit
        /\ rejected = FALSE

\* the views that call the operations are rendered once the catalog is loaded
Live == status = "running" /\ ~isLoading

(***************************************************************************)
(* Timers and renders.                                                     *)
(***************************************************************************)
CatalogTimer ==
    /\ status = "running"
    /\ catalogTimer
    /\ catalogTimer' = FALSE
    /\ pending' = pending \o << Update("setModels", modelsData),
                                Update("setTemplates", templatesData),
                                Update("setIsLoading", FALSE) >>
    /\ rejected' = FALSE
    /\ UNCHANGED <<status, storageFails, stored, theme, appVars,
                   timers, accepted, lastSubmit>>

ReplyUpdatesWithoutFinally(aiResponse) == << Update("appendChat", <<aiResponse>>) >>

ReplyUpdatesFromLaterState(aiResponse) ==
    << Update("appendChat",
              <<AiResponse(currentModel, FindModel(models, currentModel), prompt)>>),
       Update("setIsResponding", FALSE) >>

\* the two updates the continuation makes: the reply, and the reset in `finally`
ReplyUpdates(aiResponse) ==
    << Update("appendChat", <<aiResponse>>), Update("setIsResponding", FALSE) >>

\* the continuation of handleSubmitPrompt after the await
ReplyTimer ==
    /\ status = "running"
    /\ timers # <<>>
    /\ timers' = Tail(timers)
    /\ pending' = pending \o ReplyUpdates(Head(timers))
    /\ rejected' = FALSE
    /\ UNCHANGED <<status, storageFails, stored, theme, appVars,
                   catalogTimer, accepted, lastSubmit>>

Commit ==
    /\ status = "running"
    /\ pending # <<>>
    /\ pending' = <<>>
    /\ chatHistory' = chatHistory \o AppendedBy(pending)
    /\ isResponding' = IF Has(pending, "setIsResponding") THEN FALSE ELSE isResponding
    /\ models' = IF Has(pending, "setModels") THEN modelsData ELSE models
    /\ templates' = IF Has(pending, "setTemplates") THEN templatesData ELSE templates
    /\ isLoading' = IF Has(pending, "setIsLoading") THEN FALSE ELSE isLoading
    /\ rejected' = FALSE
    /\ UNCHANGED <<status, storageFails, stored, theme, currentModel,
                   temperature, maxTokens, prompt, catalogTimer, timers, accepted, lastSubmit>>

(***************************************************************************)
(* Operations of the contexts.                                             *)
(***************************************************************************)
HandleSubmitPrompt ==
    /\ Live
    /\ IF SubmitRefused(prompt, isResponding)
       THEN /\ rejected' = TRUE
            /\ UNCHANGED <<appVars, timers, accepted, lastSubmit>>
       ELSE LET userMessage == UserMessage(prompt)
                newChatHistory == NewChatHistory(chatHistory, userMessage)
                currentPrompt == prompt
                selectedModel == FindModel(models, currentModel)
            IN  /\ Len(chatHistory) < MaxHistory
                /\ prompt' = <<>>
                /\ accepted' = accepted + 1
                /\ lastSubmit' = [modelId |-> currentModel, prompt |-> prompt,
                                  before |-> chatHistory]
                /\ rejected' = FALSE
                /\ IF selectedModel = NotFound
                   THEN \* thrown before the await: catch and finally run in the
                        \* same event, and all five updates are one batch
                        /\ chatHistory' = newChatHistory \o FailurePair(currentPrompt)
                        /\ isResponding' = FALSE
                        /\ timers' = timers
                   ELSE /\ chatHistory' = newChatHistory
                        /\ isResponding' = TRUE
                        /\ timers' = Append(timers,
                               AiResponse(currentModel, selectedModel, currentPrompt))
                /\ UNCHANGED <<isLoading, models, templates, currentModel,
                               temperature, maxTokens>>
    /\ UNCHANGED <<status, storageFails, stored, theme, catalogTimer, pending>>

SetPrompt(text) ==
    /\ Live
    /\ prompt' = text
    /\ rejected' = FALSE
    /\ UNCHANGED <<status, storageFails, stored, theme, isLoading,
                   isResponding, models, templates, currentModel, temperature,
                   maxTokens, chatHistory, catalogTimer, timers, pending, accepted, lastSubmit>>

TypePrompt == \E text \in PromptInputs : SetPrompt(text)

PromptAfterTemplateAppending(prevPrompt, template) == prevPrompt \o template

\* the prompt after onClick of a template button: setPrompt(template)
PromptAfterTemplate(prevPrompt, template) == template

ClickTemplate(index) ==
    /\ Live
    /\ index \in 1..Len(templates)
    /\ SetPrompt(PromptAfterTemplate(prompt, templates[index]))

SetCurrentModel ==
    \E modelId \in ModelIdInputs :
        /\ Live
        /\ currentModel' = modelId
        /\ rejected' = FALSE
        /\ UNCHANGED <<status, storageFails, stored, theme, isLoading,
                       isResponding, models, templates, temperature, maxTokens,
                       prompt, chatHistory, catalogTimer, timers, pending, accepted, lastSubmit>>

SetTemperature ==
    \E temp \in TemperatureInputs :
        /\ Live
        /\ temperature' = temp
        /\ rejected' = FALSE
        /\ UNCHANGED <<status, storageFails, stored, theme, isLoading,
                       isResponding, models, templates, currentModel, maxTokens,
                       prompt, chatHistory, catalogTimer, timers, pending, accepted, lastSubmit>>

SetMaxTokens ==
    \E tokens \in MaxTokensInputs :
        /\ Live
        /\ maxTokens' = tokens
        /\ rejected' = FALSE
        /\ UNCHANGED <<status, storageFails, stored, theme, isLoading,
                       isResponding, models, templates, currentModel, temperature,
                       prompt, chatHistory, catalogTimer, timers, pending, accepted, lastSubmit>>

\* toggleTheme, the render it causes and the theme effect of that render
ToggleTheme ==
    /\ Live
    /\ theme' = toggleTheme(theme)
    /\ stored' = theme'
    /\ rejected' = FALSE
    /\ UNCHANGED <<status, storageFails, appVars, catalogTimer,
                   timers, pending, accepted, lastSubmit>>

Next ==
    \/ CatalogTimer
    \/ ReplyTimer
    \/ Commit
    \/ HandleSubmitPrompt
    \/ TypePrompt
    \/ \E index \in 1..Len(templates) : ClickTemplate(index)
    \/ SetCurrentModel
    \/ SetTemperature
    \/ SetMaxTokens
    \/ ToggleTheme

Spec == Init /\ [][Next]_vars

\* The conversation engine alone: the sliders and the theme toggle write
\* none of the variables a submission reads or writes.  Timers and renders
\* are tasks the event loop always gets to, hence the weak fairness.
EngineNext ==
    \/ CatalogTimer
    \/ ReplyTimer
    \/ Commit
    \/ HandleSubmitPrompt
    \/ TypePrompt
    \/ \E index \in 1..Len(templates) : ClickTemplate(index)
    \/ SetCurrentModel

FairSpec ==
    /\ Init
    /\ [][EngineNext]_vars
    /\ WF_vars(CatalogTimer) /\ WF_vars(ReplyTimer) /\ WF_vars(Commit)

(***************************************************************************)
(* Vocabulary of the properties.                                           *)
(***************************************************************************)
\* q occurs in text c as a run of consecutive characters
Embeds(c, q) ==
    \E k \in 1..(Len(c) - Len(q) + 1) : SubSeq(c, k, k + Len(q) - 1) = q

Quoted(p) == <<Quote>> \o p \o <<Quote>>

CatalogIds == {modelsData[i].id : i \in 1..Len(modelsData)}

CatalogName(id) == (CHOOSE m \in {modelsData[i] : i \in 1..Len(modelsData)} : m.id = id).name

InCatalog(ms, id) == \E i \in 1..Len(ms) : ms[i].id = id

\* the replies on their way: timer armed, or dequeued and waiting for the render
InFlight == timers \o AppendedBy(pending)

UserEntries(h) == {i \in 1..Len(h) : h[i].sender = "user"}

IsReplyTo(m, p) ==
    m.sender = "ai" /\ ~m.isError /\ m.model # "Simulator" /\ Embeds(m.content, Quoted(p))

IsErrorEntry(m) == m.sender = "ai" /\ m.isError /\ m.model = "System"

IsFallbackTo(m, p) ==
    m.sender = "ai" /\ ~m.isError /\ m.model = "Simulator" /\ Embeds(m.content, Quoted(p))

\* the entry at i is a user entry answered in the transcript, or the last
\* entry with its reply still on its way
Answered(h, i) ==
    \/ i + 1 <= Len(h) /\ IsReplyTo(h[i + 1], h[i].content)
         /\ (i + 2 <= Len(h) => h[i + 2].sender = "user")
    \/ i + 2 <= Len(h) /\ IsErrorEntry(h[i + 1]) /\ IsFallbackTo(h[i + 2], h[i].content)
         /\ (i + 3 <= Len(h) => h[i + 3].sender = "user")

(***************************************************************************)
(* C1: at most one submission is in flight; a submission is accepted only  *)
(* when none is in flight and isResponding is clear; the transcript has    *)
(* one user entry per accepted submission, and every user entry is         *)
(* followed by its own reply (or error and fallback) before the next user  *)
(* entry, the last one possibly still waiting for the reply in flight.     *)
(***************************************************************************)
C1_Serialized ==
    /\ Len(InFlight) <= 1
    /\ isResponding <=> (InFlight # <<>>)
    /\ Cardinality(UserEntries(chatHistory)) = accepted
    /\ \A i \in UserEntries(chatHistory) :
          \/ Answered(chatHistory, i)
          \/ /\ i = Len(chatHistory)
             /\ Len(InFlight) = 1
             /\ isResponding
             /\ IsReplyTo(InFlight[1], chatHistory[i].content)

\* a second submission is answered while a further trigger is being refused
C1_Witness ==
    /\ accepted = 2
    /\ rejected
    /\ isResponding
    /\ Trim(prompt) # <<>>
    /\ Len(chatHistory) = 3
    /\ timers # <<>>

(***************************************************************************)
(* C2: handleSubmitPrompt called with a prompt that trims to the empty     *)
(* text, or while isResponding is true, leaves chatHistory, isResponding   *)
(* and prompt as they are.                                                 *)
(***************************************************************************)
C2_GuardNoOp ==
    [][ (HandleSubmitPrompt /\ (Trim(prompt) = <<>> \/ isResponding))
          => UNCHANGED <<chatHistory, isResponding, prompt>> ]_vars

\* a call was refused because a reply is pending, the prompt being non-blank
C2_Witness == rejected /\ isResponding /\ Trim(prompt) # <<>> /\ prompt # <<>>

(***************************************************************************)
(* C3: chatHistory is append-only: a step never shortens it nor changes an *)
(* entry it already holds.                                                 *)
(***************************************************************************)
C3_AppendOnly ==
    [][ /\ Len(chatHistory') >= Len(chatHistory)
        /\ SubSeq(chatHistory', 1, Len(chatHistory)) = chatHistory ]_vars

\* two exchanges are in the transcript, the second one with its reply
C3_Witness == accepted = 2 /\ Len(chatHistory) >= 4 /\ ~isResponding /\ theme = "dark"

\* error entry and fallback entry occur in the transcript only as a pair
C4_PairTogether ==
    \A i \in 1..Len(chatHistory) :
        /\ chatHistory[i].isError =>
              /\ i > 1 /\ i < Len(chatHistory)
              /\ chatHistory[i - 1].sender = "user"
              /\ IsErrorEntry(chatHistory[i])
              /\ IsFallbackTo(chatHistory[i + 1], chatHistory[i - 1].content)
        /\ chatHistory[i].model = "Simulator" => (i > 2 /\ chatHistory[i - 1].isError)

(***************************************************************************)
(* C4: a submission accepted while currentModel is not the id of a loaded  *)
(* model appends, after the user entry and in the same step, the error     *)
(* entry (isError, model "System") and then the fallback entry (model      *)
(* "Simulator", quoting the submitted prompt); in no state does the        *)
(* transcript hold an error entry without its fallback or a fallback       *)
(* without its error entry.                                                *)
(***************************************************************************)
C4_UnknownModelPair ==
    /\ []C4_PairTogether
    /\ [][ (accepted' = accepted + 1 /\ ~InCatalog(models, currentModel))
             => /\ Len(chatHistory') = Len(chatHistory) + 3
                /\ SubSeq(chatHistory', 1, Len(chatHistory)) = chatHistory
                /\ chatHistory'[Len(chatHistory) + 1] = UserMessage(prompt)
                /\ IsErrorEntry(chatHistory'[Len(chatHistory) + 2])
                /\ IsFallbackTo(chatHistory'[Len(chatHistory) + 3], prompt)
                /\ ~isResponding' ]_vars

\* the pair is in the transcript after a submission under the unknown id
C4_Witness ==
    /\ lastSubmit.modelId = "no-such-model"
    /\ Len(chatHistory) = 3
    /\ chatHistory[2].isError
    /\ chatHistory[3].model = "Simulator"

(***************************************************************************)
(* C5: the latest accepted submission, made under a catalog id with        *)
(* prompt p, has added to the transcript the user entry with content p     *)
(* and, once answered, exactly one more entry: an ai entry whose model is  *)
(* the catalog name of that id and whose content quotes p as submitted;    *)
(* isResponding is true before the reply is in the transcript and false    *)
(* from then on.                                                           *)
(***************************************************************************)
C5_KnownModelExchange ==
    (lastSubmit # NoSubmit /\ lastSubmit.modelId \in CatalogIds) =>
        LET p == lastSubmit.prompt
            h == lastSubmit.before \o <<UserMessage(p)>>
        IN  \/ isResponding /\ chatHistory = h
            \/ /\ ~isResponding
               /\ Len(chatHistory) = Len(h) + 1
               /\ SubSeq(chatHistory, 1, Len(h)) = h
               /\ LET r == chatHistory[Len(h) + 1]
                  IN  /\ r.sender = "ai"
                      /\ ~r.isError
                      /\ r.model = CatalogName(lastSubmit.modelId)
                      /\ Embeds(r.content, Quoted(p))
                      /\ Len(r.content) = Len(p) + 4

\* GPT-4 Turbo has answered the typed prompt
C5_Witness ==
    /\ lastSubmit.modelId = "gpt-4-turbo"
    /\ lastSubmit.prompt = <<" ", "H", "i">>
    /\ ~isResponding
    /\ Len(chatHistory) = 2
    /\ chatHistory[2].model = "GPT-4 Turbo"
    /\ prompt = <<>>

\* the reset of isResponding is scheduled
C6_ResetToCome ==
    isResponding =>
        \/ timers # <<>> /\ ENABLED ReplyTimer
        \/ Has(pending, "setIsResponding") /\ ENABLED Commit

\* the step that ends a submission leaves nothing of it to be done
C6_ResetIsLast ==
    /\ (isResponding /\ ~isResponding') =>
          /\ timers' = <<>> /\ pending' = <<>>
          /\ Len(chatHistory') = Len(chatHistory) + 1
          /\ IsReplyTo(chatHistory'[Len(chatHistory')], lastSubmit.prompt)
    /\ (accepted' = accepted + 1 /\ ~isResponding') =>
          /\ timers' = <<>> /\ pending' = <<>>
          /\ Len(chatHistory') = Len(chatHistory) + 3
          /\ IsFallbackTo(chatHistory'[Len(chatHistory')], prompt)

(***************************************************************************)
(* C6: while isResponding is true the reset is still to come (the reply's  *)
(* timer is armed, or the reset waits for its render) and it does come;    *)
(* the step that clears isResponding is the one that puts the reply into   *)
(* the transcript and leaves nothing of the submission behind; on the      *)
(* failure path the accepting step itself ends with isResponding false     *)
(* and the pair appended.                                                  *)
(***************************************************************************)
C6_AlwaysReset ==
    /\ []C6_ResetToCome
    /\ [][C6_ResetIsLast]_vars
    /\ (isResponding ~> ~isResponding)

\* a reply has been rendered and the flag cleared with it
C6_Witness ==
    /\ accepted = 1
    /\ ~isResponding
    /\ Len(chatHistory) = 2
    /\ chatHistory[2].sender = "ai"
    /\ timers = <<>> /\ pending = <<>>

(***************************************************************************)
(* C7: a toggle changes the theme to a value from which the next toggle    *)
(* leads back to the value before, and after the toggle the value stored   *)
(* under "theme" is the theme in memory.                                   *)
(***************************************************************************)
C7_ToggleTwice ==
    [][ theme' # theme => (toggleTheme(theme') = theme /\ stored' = theme') ]_vars

(***************************************************************************)
(* C8: when reading the storage fails, initialization completes as if no   *)
(* value were stored: the application runs, with the theme of the system   *)
(* preference (dark) or else light.                                        *)
(***************************************************************************)
C8_ReadFailureIsAbsent ==
    storageFails => (status = "running" /\ theme \in {"light", "dark"})

(***************************************************************************)
(* C9: a click on the template at index i, whatever the prompt was and     *)
(* also while a reply is pending, makes the prompt exactly the i-th        *)
(* template and leaves chatHistory, isResponding, currentModel,            *)
(* temperature and maxTokens as they are.                                  *)
(***************************************************************************)
C9_TemplateReplacesPrompt ==
    [][ \A i \in 1..Len(templatesData) :
          ClickTemplate(i) =>
              /\ prompt' = templatesData[i]
              /\ UNCHANGED <<chatHistory, isResponding, currentModel,
                             temperature, maxTokens>> ]_vars

\* the third template was clicked while a reply was pending
C9_Witness ==
    /\ isResponding
    /\ prompt = templatesData[3]
    /\ Len(chatHistory) = 1
    /\ chatHistory[1].content = <<" ", "H", "i">>

\* r is the reply to the latest accepted submission, as fixed at its acceptance
C10_ReplyOfSubmission(r) ==
    /\ r.sender = "ai"
    /\ ~r.isError
    /\ r.model = CatalogName(lastSubmit.modelId)
    /\ r.content = ReplyText(lastSubmit.modelId,
                             [name |-> CatalogName(lastSubmit.modelId)],
                             lastSubmit.prompt)

\* the reply in flight is that reply, and its delivery is enabled
C10_InFlightFixed ==
    isResponding =>
        /\ Len(InFlight) = 1
        /\ lastSubmit.modelId \in CatalogIds
        /\ C10_ReplyOfSubmission(InFlight[1])
        /\ (ENABLED ReplyTimer \/ ENABLED Commit)

\* a reply leaves flight only by being appended to the transcript
C10_OnlyDelivered ==
    (InFlight # <<>> /\ InFlight' # InFlight) =>
        /\ InFlight' = <<>>
        /\ chatHistory' = chatHistory \o InFlight

(***************************************************************************)
(* C10: a reply in flight is the one fixed when its submission was         *)
(* accepted (the name of the model selected then, quoting the prompt       *)
(* submitted then), whatever was changed since; it stays in flight, with   *)
(* the step that delivers it enabled, until a step appends exactly it to   *)
(* the transcript.                                                         *)
(***************************************************************************)
C10_NoCancellation == []C10_InFlightFixed /\ [][C10_OnlyDelivered]_vars

\* the reply waits for its render while model, prompt, sliders and theme
\* are no longer what they were at the submission
C10_Witness ==
    /\ isResponding
    /\ pending # <<>>
    /\ lastSubmit.modelId = "gemini-2.5-flash-preview-05-20"
    /\ currentModel = "no-such-model"
    /\ prompt = templatesData[2]
    /\ temperature # InitialTemperature
    /\ maxTokens # InitialMaxTokens
    /\ theme = "dark" /\ stored = "dark"

C11_Kept ==
    /\ (isLoading /\ ~isLoading') => InCatalog(models', currentModel')
    /\ (~isLoading /\ InCatalog(models, currentModel)) =>
          \/ ~isLoading' /\ InCatalog(models', currentModel')
          \/ currentModel' # currentModel /\ ~InCatalog(models, currentModel')

\* while the catalog is loading no model is loaded and nothing was selected
C11_WhileLoading ==
    (status = "running" /\ isLoading) =>
        /\ models = <<>>
        /\ currentModel = modelsData[1].id
        /\ ~InCatalog(models, currentModel)

C12_ThemeLightOrDark == status = "running" => theme \in {"light", "dark"}

\* the transcript from entry i on is a run of complete exchanges, the last
\* one possibly still without its reply
RECURSIVE C13_Exchanges(_, _)
C13_Exchanges(h, i) ==
    \/ i > Len(h)
    \/ /\ h[i].sender = "user"
       /\ \/ i = Len(h)
          \/ /\ i + 1 <= Len(h)
             /\ h[i + 1].sender = "ai" /\ ~h[i + 1].isError
             /\ h[i + 1].model \notin {"System", "Simulator"}
             /\ C13_Exchanges(h, i + 2)
          \/ /\ i + 2 <= Len(h)
             /\ IsErrorEntry(h[i + 1])
             /\ h[i + 2].sender = "ai" /\ h[i + 2].model = "Simulator"
             /\ C13_Exchanges(h, i + 3)

(***************************************************************************)
(* C13: chatHistory is a concatenation of complete exchanges (a user       *)
(* entry followed by one ai reply or by the error entry and the fallback   *)
(* entry), optionally ending with one unanswered user entry; isResponding  *)
(* is true exactly when the last entry is such an unanswered user entry.   *)
(***************************************************************************)
C13_TranscriptShape ==
    /\ C13_Exchanges(chatHistory, 1)
    /\ isResponding <=>
          (chatHistory # <<>> /\ chatHistory[Len(chatHistory)].sender = "user")

\* a complete exchange is followed by a user entry waiting for its reply
C13_Witness ==
    /\ isResponding
    /\ Len(chatHistory) = 3
    /\ chatHistory[2].sender = "ai"
    /\ chatHistory[3].sender = "user"
    /\ timers # <<>>

====
